---- MODULE Spec2Model ----
(***************************************************************************)
(* Agent Build Status API (src/main.py): the build_status event store, the *)
(* enrichment done by create_build_status on ingest, the fold of           *)
(* get_build_status_summary, and the build_info upsert.                    *)
(*                                                                         *)
(* Conventions.  A Python str whose characters matter (step, phase) is a   *)
(* sequence of one-character strings, so that `in` is a real substring     *)
(* test.  An Optional value is None (the empty sequence) or Some(v) (a     *)
(* one-element sequence).  A datetime is an integer count of microseconds  *)
(* (the resolution of datetime and of the timestamp column).               *)
(***************************************************************************)
EXTENDS Integers, Sequences, FiniteSets, TLC

VARIABLES
    build_status,   \* rows of "agentic-platform".build_status, in insertion order
    status_seq,     \* the id the build_status id sequence hands out next
    submitted,      \* history: the request body of each stored row, as it was posted
    build_info,     \* rows of "agentic-platform".build_info, in insertion order
    info_seq,       \* the id the build_info id sequence hands out next
    clock,          \* CURRENT_TIMESTAMP of the database, a logical tick
    posted,         \* history: the bodies of the POST /build-info calls that committed
    response,       \* what the last finished request returned to its caller
    fold,           \* the running get_build_status_summary loop, or Idle
    calls           \* per worker, its create_build_status request in progress

status_vars == <<build_status, status_seq, submitted, calls>>
info_vars == <<build_info, info_seq, clock, posted>>
vars == <<status_vars, info_vars, response, fold>>

---------------------------------------------------------------------------
(* Optional values and Python truthiness *)

None == <<>>
Some(v) == <<v>>
Val(o) == o[1]

\* `not x` is false exactly for a non-None x that is neither "" nor 0
TruthyStr(o) == o # None /\ Val(o) # <<>>
TruthyInt(o) == o # None /\ Val(o) # 0

Max(S) == CHOOSE m \in S : \A n \in S : n <= m
Min(S) == CHOOSE m \in S : \A n \in S : m <= n

---------------------------------------------------------------------------
(* The strings of the source, character by character *)

Str_Phase == <<"P", "h", "a", "s", "e">>
Str_BuildProcess == <<"B", "u", "i", "l", "d", "P", "r", "o", "c", "e", "s", "s">>
Str_Overall == <<"O", "v", "e", "r", "a", "l", "l">>
Str_Unknown == <<"U", "n", "k", "n", "o", "w", "n">>
Str_Install == <<"I", "n", "s", "t", "a", "l", "l">>
Str_PreBuild == <<"P", "r", "e", "B", "u", "i", "l", "d">>
Str_Build == <<"B", "u", "i", "l", "d">>
Str_PostBuild == <<"P", "o", "s", "t", "B", "u", "i", "l", "d">>
Str_InstallDependencies == <<"I", "n", "s", "t", "a", "l", "l", "D", "e", "p", "e", "n", "d", "e", "n", "c", "i", "e", "s">>
Str_ECRLogin == <<"E", "C", "R", "L", "o", "g", "i", "n">>
Str_DownloadAgent == <<"D", "o", "w", "n", "l", "o", "a", "d", "A", "g", "e", "n", "t">>
Str_ExtractAgent == <<"E", "x", "t", "r", "a", "c", "t", "A", "g", "e", "n", "t">>
Str_BuildImage == <<"B", "u", "i", "l", "d", "I", "m", "a", "g", "e">>
Str_TagImage == <<"T", "a", "g", "I", "m", "a", "g", "e">>
Str_PushImage == <<"P", "u", "s", "h", "I", "m", "a", "g", "e">>
Str_RunTests == <<"R", "u", "n", "T", "e", "s", "t", "s">>
Str_TagImagePhase == <<"T", "a", "g", "I", "m", "a", "g", "e", "P", "h", "a", "s", "e">>
Str_ECRLoginRetry == <<"E", "C", "R", "L", "o", "g", "i", "n", "R", "e", "t", "r", "y">>
Str_PrePhaseCheck == <<"P", "r", "e", "P", "h", "a", "s", "e", "C", "h", "e", "c", "k">>
Str_BuildProcessRetry == <<"B", "u", "i", "l", "d", "P", "r", "o", "c", "e", "s", "s", "R", "e", "t", "r", "y">>
Str_PushImageAfterECRLogin == <<"P", "u", "s", "h", "I", "m", "a", "g", "e", "A", "f", "t", "e", "r", "E", "C", "R", "L", "o", "g", "i", "n">>
Str_Custom == <<"C", "u", "s", "t", "o", "m">>

\* Python's `pat in s` for strings
Contains(s, pat) ==
    \E i \in 1..(Len(s) - Len(pat) + 1) : SubSeq(s, i, i + Len(pat) - 1) = pat

---------------------------------------------------------------------------
(* int((t1 - t0).total_seconds() * 1000): the IEEE-754 double arithmetic   *)
(* of timedelta.total_seconds() (microseconds / 10**6, correctly rounded), *)
(* of the multiplication by 1000 (rounded to nearest, ties to even) and    *)
(* the truncation of int().  Numbers wider than TLC's integers are bit     *)
(* strings, most significant bit first.                                    *)

MantBits == 53
ChunkBits == 10
Chunks == 8
US_PER_SECOND == 1000000
MS_PER_SECOND == 1000

Base == 2 ^ ChunkBits

RECURSIVE IntToBits(_)
IntToBits(n) == IF n = 0 THEN <<>> ELSE Append(IntToBits(n \div 2), n % 2)

RECURSIVE BitsToInt(_)
BitsToInt(b) ==
    IF b = <<>> THEN 0 ELSE 2 * BitsToInt(SubSeq(b, 1, Len(b) - 1)) + b[Len(b)]

\* the ChunkBits bits of a digit d < Base
DigitBits(d) == [i \in 1..ChunkBits |-> (d \div (2 ^ (ChunkBits - i))) % 2]

\* the bits of a sequence of digits, most significant digit first
DigitsToBits(ds) ==
    [i \in 1..(ChunkBits * Len(ds)) |->
        DigitBits(ds[((i - 1) \div ChunkBits) + 1])[((i - 1) % ChunkBits) + 1]]

StripZeros(b) ==
    IF \A i \in 1..Len(b) : b[i] = 0 THEN <<>>
    ELSE LET first == CHOOSE i \in 1..Len(b) : b[i] = 1 /\ \A j \in 1..(i - 1) : b[j] = 0
         IN  SubSeq(b, first, Len(b))

IncBits(b) ==
    IF \A i \in 1..Len(b) : b[i] = 1 THEN <<1>> \o [i \in 1..Len(b) |-> 0]
    ELSE LET last == CHOOSE i \in 1..Len(b) : b[i] = 0 /\ \A j \in (i + 1)..Len(b) : b[j] = 1
         IN  [i \in 1..Len(b) |-> IF i < last THEN b[i] ELSE IF i = last THEN 1 ELSE 0]

\* b rounded to MantBits significant bits, to nearest, ties to even; sticky says
\* that nonzero bits below b were already lost
RoundBits(b, sticky) ==
    IF Len(b) <= MantBits THEN [m |-> b, dropped |-> 0]
    ELSE LET m  == SubSeq(b, 1, MantBits)
             g  == b[MantBits + 1]
             st == sticky \/ \E i \in (MantBits + 2)..Len(b) : b[i] = 1
             up == g = 1 /\ (st \/ m[MantBits] = 1)
         IN  [m |-> IF up THEN IncBits(m) ELSE m, dropped |-> Len(b) - MantBits]

\* the remainder of n * Base^k by d
RECURSIVE ChunkRem(_, _, _)
ChunkRem(n, d, k) == IF k = 0 THEN n % d ELSE (ChunkRem(n, d, k - 1) * Base) % d

\* floor(n * Base^Chunks / d) in bits, and whether the division left a remainder
DivScaled(n, d) ==
    LET ds == [k \in 1..Chunks |-> (ChunkRem(n, d, k - 1) * Base) \div d]
    IN  [q |-> StripZeros(IntToBits(n \div d) \o DigitsToBits(ds)),
         inexact |-> ChunkRem(n, d, Chunks) # 0]

\* digit k (0 the least significant) of the bit string b
Limb(b, k) ==
    LET hi == Len(b) - ChunkBits * k
        lo == hi - ChunkBits + 1
    IN  IF hi < 1 THEN 0 ELSE BitsToInt(SubSeq(b, IF lo < 1 THEN 1 ELSE lo, hi))

RECURSIVE MulCarry(_, _, _)
MulCarry(b, f, k) ==
    IF k = 0 THEN 0 ELSE (Limb(b, k - 1) * f + MulCarry(b, f, k - 1)) \div Base

\* the bits of b * f, for a factor f < Base
MulSmall(b, f) ==
    LET n  == (Len(b) + ChunkBits - 1) \div ChunkBits
        ds == [i \in 1..(n + 1) |->
                 LET k == n + 1 - i
                 IN  (Limb(b, k) * f + MulCarry(b, f, k)) % Base]
    IN  StripZeros(DigitsToBits(ds))

\* int(timedelta(microseconds=n).total_seconds() * 1000) for n >= 0
FloatMs(n) ==
    IF n = 0 THEN 0
    ELSE LET dv == DivScaled(n, US_PER_SECOND)
             x1 == RoundBits(dv.q, dv.inexact)
             y  == RoundBits(MulSmall(x1.m, MS_PER_SECOND), FALSE)
             sh == ChunkBits * Chunks - x1.dropped - y.dropped
         IN  IF Len(y.m) <= sh THEN 0 ELSE BitsToInt(SubSeq(y.m, 1, Len(y.m) - sh))

\* the timestamps (microseconds) that the specifications below post
Timestamps == {0, 1000, 2000, 1001000, 1002000, 2000000}

\* FloatMs, computed once for the differences of those timestamps
FloatMsMemo ==
    { <<n, FloatMs(n)>> : n \in { a - b : a, b \in Timestamps } \cap Nat }

\* int((t1 - t0).total_seconds() * 1000); float arithmetic and int() are
\* symmetric in the sign
DurationMs(t1, t0) ==
    LET n == IF t1 >= t0 THEN t1 - t0 ELSE t0 - t1
        ms == IF \E p \in FloatMsMemo : p[1] = n
              THEN (CHOOSE p \in FloatMsMemo : p[1] = n)[2]
              ELSE FloatMs(n)
    IN  IF t1 >= t0 THEN ms ELSE 0 - ms

---------------------------------------------------------------------------
(* create_build_status: enrichment of the submitted item on ingest *)

\* the dict `phases` of create_build_status, in its insertion order
phases ==
    << [phase |-> Str_Install,   steps |-> <<Str_InstallDependencies, Str_ECRLogin>>],
       [phase |-> Str_PreBuild,  steps |-> <<Str_DownloadAgent, Str_ExtractAgent>>],
       [phase |-> Str_Build,     steps |-> <<Str_BuildImage>>],
       [phase |-> Str_PostBuild, steps |-> <<Str_TagImage, Str_PushImage>>] >>

\* a wrong MatchingPhases: the step must equal a listed name, not contain one
MatchingPhases_WholeName(step) ==
    { i \in 1..Len(phases) : \E j \in 1..Len(phases[i].steps) : step = phases[i].steps[j] }

\* the entries of `phases` one of whose step names occurs in step
MatchingPhases(step) ==
    { i \in 1..Len(phases) :
        \E j \in 1..Len(phases[i].steps) : Contains(step, phases[i].steps[j]) }

\* item.phase after "Automatically determine phase from step if not provided"
InferPhase(item) ==
    IF ~TruthyStr(item.phase) /\ item.step # <<>>
    THEN IF Contains(item.step, Str_Phase) THEN Some(item.step)
         ELSE IF Str_BuildProcess = item.step THEN Some(Str_Overall)
         ELSE IF MatchingPhases(item.step) # {}
              THEN Some(phases[Min(MatchingPhases(item.step))].phase \o Str_Phase)
              ELSE item.phase
    ELSE item.phase

\* the rows (indices) of table rows with this build_id and step
RowsOfStep(rows, build_id, step) ==
    { i \in 1..Len(rows) : rows[i].build_id = build_id /\ rows[i].step = step }

\* ORDER BY id DESC LIMIT 1 over a non-empty set of rows
LatestById(rows, idx) == CHOOSE i \in idx : \A j \in idx : rows[j].id <= rows[i].id

\* a wrong MaxStep: the maximum is taken over the events of every build
MaxStep_AllBuilds(rows, build_id) ==
    LET nums == { Val(rows[i].step_number) :
                    i \in { j \in 1..Len(rows) : rows[j].step_number # None } }
    IN  IF nums = {} \/ Max(nums) = 0 THEN 0 ELSE Max(nums)

\* SELECT MAX(step_number) ... WHERE build_id = %s, then `or 0`
MaxStep(rows, build_id) ==
    LET nums == { Val(rows[i].step_number) :
                    i \in { j \in 1..Len(rows) : rows[j].build_id = build_id
                                                /\ rows[j].step_number # None } }
    IN  IF nums = {} \/ Max(nums) = 0 THEN 0 ELSE Max(nums)

\* a wrong InferStepNumber: every item without a number gets a fresh one
InferStepNumber_NoReuse(item, rows) ==
    IF item.step_number = None
    THEN Some(MaxStep(rows, item.build_id) + 1)
    ELSE item.step_number

\* item.step_number after "Auto-set step number if not provided"
InferStepNumber(item, rows) ==
    IF item.step_number = None
    THEN LET same == RowsOfStep(rows, item.build_id, item.step)
         IN  IF same # {} /\ rows[LatestById(rows, same)].step_number # None
             THEN rows[LatestById(rows, same)].step_number
             ELSE Some(MaxStep(rows, item.build_id) + 1)
    ELSE item.step_number

\* the rows with this build_id and step whose status is 'Started'
StartedRows(rows, build_id, step) ==
    { i \in RowsOfStep(rows, build_id, step) : rows[i].status = "Started" }

\* a wrong InferDuration: the Started row with the latest timestamp is taken
InferDuration_LatestTimestamp(item, rows) ==
    IF item.status \in {"Success", "Failed"} /\ ~TruthyInt(item.duration_ms)
    THEN LET started == StartedRows(rows, item.build_id, item.step)
         IN  IF started # {}
             THEN Some(DurationMs(item.timestamp,
                                  Max({ rows[i].timestamp : i \in started })))
             ELSE item.duration_ms
    ELSE item.duration_ms

\* item.duration_ms after "Calculate duration for Success or Failed statuses"
InferDuration(item, rows) ==
    IF item.status \in {"Success", "Failed"} /\ ~TruthyInt(item.duration_ms)
    THEN LET started == StartedRows(rows, item.build_id, item.step)
         IN  IF started # {}
             THEN Some(DurationMs(item.timestamp,
                                  rows[LatestById(rows, started)].timestamp))
             ELSE item.duration_ms
    ELSE item.duration_ms

\* the item as create_build_status inserts it
Enrich(item, rows) ==
    [item EXCEPT !.phase = InferPhase(item),
                 !.step_number = InferStepNumber(item, rows),
                 !.duration_ms = InferDuration(item, rows)]

\* a BuildStatusCreate body
Item(agent, build, phase, step, num, status, msg, ts, env, dur) ==
    [agent_version_id |-> agent, build_id |-> build, phase |-> phase, step |-> step,
     step_number |-> num, status |-> status, message |-> msg, timestamp |-> ts,
     environment |-> env, duration_ms |-> dur]

\* the row the INSERT stores for an enriched item
Row(id, item) ==
    [id |-> id, agent_version_id |-> item.agent_version_id, build_id |-> item.build_id,
     phase |-> item.phase, step |-> item.step, step_number |-> item.step_number,
     status |-> item.status, message |-> item.message, timestamp |-> item.timestamp,
     environment |-> item.environment, duration_ms |-> item.duration_ms]

---------------------------------------------------------------------------
(* get_build_status_summary: the query and the fold over its records *)

TruthyText(o) == o # None /\ Val(o) # ""

\* a dict with no key yet
EmptyDict == [k \in {} |-> None]

\* a wrong SummaryRows: the environment filter is never added
SummaryRows_AnyEnvironment(rows, build_id, environment) ==
    { i \in 1..Len(rows) : rows[i].build_id = build_id }

\* WHERE build_id = %s [AND environment = %s]
SummaryRows(rows, build_id, environment) ==
    { i \in 1..Len(rows) :
        /\ rows[i].build_id = build_id
        /\ TruthyText(environment) => rows[i].environment = Val(environment) }

\* ORDER BY timestamp ASC over the rows idx: every order the database may return
\* them in (rows of equal timestamp come in no defined order)
RECURSIVE AscendingOrders(_, _)
AscendingOrders(rows, idx) ==
    IF idx = {} THEN {<<>>}
    ELSE UNION { { <<i>> \o ord : ord \in AscendingOrders(rows, idx \ {i}) } :
                 i \in { k \in idx : \A j \in idx : rows[k].timestamp <= rows[j].timestamp } }

\* the summary and the two local markers before the loop
InitSummary(build_id, records) ==
    [build_id |-> build_id, environment |-> records[1].environment,
     overall_status |-> "In Progress", phases |-> EmptyDict,
     started_at |-> None, completed_at |-> None, total_duration_ms |-> None,
     overall_started |-> None, overall_completed |-> None]

NewPhase ==
    [status |-> "Not Started", steps |-> EmptyDict, started_at |-> None,
     completed_at |-> None, duration_ms |-> None]

NewStep(record) ==
    [status |-> record.status, step_number |-> record.step_number,
     message |-> record.message, started_at |-> None, completed_at |-> None,
     duration_ms |-> record.duration_ms]

\* a wrong PhaseName: a record without a phase is grouped under its step name
PhaseName_StepAsPhase(record) ==
    IF TruthyStr(record.phase) THEN Val(record.phase) ELSE record.step

\* record["phase"] or "Unknown"
PhaseName(record) == IF TruthyStr(record.phase) THEN Val(record.phase) ELSE Str_Unknown

Terminal(status) == status \in {"Success", "Failed"}

\* a wrong PhaseStatus: a started step is looked for before a failed one
PhaseStatus_StartedFirst(steps, prev) ==
    IF \E s \in DOMAIN steps : steps[s].status = "Started" THEN "In Progress"
    ELSE IF \E s \in DOMAIN steps : steps[s].status = "Failed" THEN "Failed"
    ELSE IF \A s \in DOMAIN steps : steps[s].status = "Success" THEN "Success"
    ELSE prev

\* "Update phase status": the status of a phase from its steps, prev being the
\* status it had
PhaseStatus(steps, prev) ==
    IF \E s \in DOMAIN steps : steps[s].status = "Failed" THEN "Failed"
    ELSE IF \A s \in DOMAIN steps : steps[s].status = "Success" THEN "Success"
    ELSE IF \E s \in DOMAIN steps : steps[s].status = "Started" THEN "In Progress"
    ELSE prev

\* the step entry after "Update step status" and "Track timestamps"
StepAfter(step, record) ==
    LET s1 == [step EXCEPT !.status = record.status, !.message = record.message]
    IN  IF record.status = "Started"
        THEN [s1 EXCEPT !.started_at = IF @ = None THEN Some(record.timestamp) ELSE @]
        ELSE IF Terminal(record.status)
        THEN [s1 EXCEPT !.completed_at = Some(record.timestamp),
                        !.duration_ms = record.duration_ms]
        ELSE s1

\* the phase entry after one record of the phase
PhaseAfter(phase, record) ==
    LET step_name == record.step
        steps0 == IF step_name \in DOMAIN phase.steps THEN phase.steps
                  ELSE phase.steps @@ (step_name :> NewStep(record))
        steps1 == [steps0 EXCEPT ![step_name] = StepAfter(@, record)]
        p1 == [phase EXCEPT !.steps = steps1]
        p2 == IF record.status = "Started"
              THEN [p1 EXCEPT !.started_at =
                                 IF @ = None THEN Some(record.timestamp) ELSE @]
              ELSE IF /\ Terminal(record.status)
                      /\ \A s \in DOMAIN steps1 : Terminal(steps1[s].status)
              THEN [p1 EXCEPT !.completed_at = Some(record.timestamp),
                              !.duration_ms =
                                 IF p1.started_at # None
                                 THEN Some(DurationMs(record.timestamp,
                                                      Val(p1.started_at)))
                                 ELSE @]
              ELSE p1
    IN  [p2 EXCEPT !.status = PhaseStatus(steps1, @)]

\* one iteration of `for record in records`
FoldRecord(summary, record) ==
    LET phase_name == PhaseName(record)
        phases0 == IF phase_name \in DOMAIN summary.phases THEN summary.phases
                   ELSE summary.phases @@ (phase_name :> NewPhase)
        s1 == [summary EXCEPT
                 !.phases = [phases0 EXCEPT ![phase_name] = PhaseAfter(@, record)]]
    IN  IF record.status = "Started"
        THEN IF record.step = Str_BuildProcess /\ summary.overall_started = None
             THEN [s1 EXCEPT !.overall_started = Some(record.timestamp),
                             !.started_at = Some(record.timestamp)]
             ELSE s1
        ELSE IF Terminal(record.status) /\ record.step = Str_BuildProcess
        THEN [s1 EXCEPT !.overall_completed = Some(record.timestamp),
                        !.completed_at = Some(record.timestamp),
                        !.overall_status = record.status]
        ELSE s1

\* the loop over records[from..Len(records)]
RECURSIVE FoldFrom(_, _, _)
FoldFrom(summary, records, from) ==
    IF from > Len(records) THEN summary
    ELSE FoldFrom(FoldRecord(summary, records[from]), records, from + 1)

\* a wrong OverallStatus: the value set during the pass is returned as it is
OverallStatus_AsSetInPass(summary) == summary.overall_status

\* "Set overall status": p != "Overall" compares a phase dict with a string and
\* is true of every phase
OverallStatus(summary) ==
    IF \E p \in DOMAIN summary.phases : summary.phases[p].status = "Failed"
    THEN "Failed"
    ELSE IF \A p \in DOMAIN summary.phases : summary.phases[p].status = "Success"
    THEN "Success"
    ELSE summary.overall_status

\* what the handler returns after the loop
Finalize(summary) ==
    LET total == IF summary.overall_started # None /\ summary.overall_completed # None
                 THEN Some(DurationMs(Val(summary.overall_completed),
                                      Val(summary.overall_started)))
                 ELSE summary.total_duration_ms
    IN  [build_id |-> summary.build_id, environment |-> summary.environment,
         overall_status |-> OverallStatus(summary), phases |-> summary.phases,
         started_at |-> summary.started_at, completed_at |-> summary.completed_at,
         total_duration_ms |-> total]

\* the summary the handler computes from the records it fetched
Summarize(build_id, records) ==
    Finalize(FoldFrom(InitSummary(build_id, records), records, 1))

---------------------------------------------------------------------------
(* The handlers.  Each action is one request, from its arrival to its      *)
(* response.                                                               *)

\* a finished request: the handler, what it was called with, the HTTP status and
\* the body returned
Response(op, request, code, body) ==
    [op |-> op, request |-> request, code |-> code, body |-> body]

\* a wrong create_build_status: the id sequence is not advanced
create_build_status_same_id(item) ==
    LET row == Row(status_seq, Enrich(item, build_status))
    IN  /\ build_status' = Append(build_status, row)
        /\ status_seq' = status_seq
        /\ submitted' = Append(submitted, item)
        /\ response' = Response("create_build_status", item, 201, Some(row))
        /\ UNCHANGED <<info_vars, fold, calls>>

\* POST /build-status, the insert commits: 201 and the enriched record with its id
create_build_status(item) ==
    LET row == Row(status_seq, Enrich(item, build_status))
    IN  /\ build_status' = Append(build_status, row)
        /\ status_seq' = status_seq + 1
        /\ submitted' = Append(submitted, item)
        /\ response' = Response("create_build_status", item, 201, Some(row))
        /\ UNCHANGED <<info_vars, fold, calls>>

\* a wrong create_build_status_rollback: the failed write is not rolled back
create_build_status_no_rollback(item, drawn) ==
    /\ build_status' = Append(build_status, Row(status_seq, Enrich(item, build_status)))
    /\ submitted' = Append(submitted, item)
    /\ status_seq' = status_seq + 1
    /\ response' = Response("create_build_status", item, 500, None)
    /\ UNCHANGED <<info_vars, fold, calls>>

\* POST /build-status, the insert or the commit raises: rollback and HTTP 500.
\* The id sequence is not transactional: the failed insert may have drawn an id.
create_build_status_rollback(item, drawn) ==
    /\ build_status' = build_status
    /\ submitted' = submitted
    /\ status_seq' = status_seq + drawn
    /\ response' = Response("create_build_status", item, 500, None)
    /\ UNCHANGED <<info_vars, fold, calls>>

\* the rows a GET /build-status query selects
StatusRows(rows, q) ==
    { i \in 1..Len(rows) :
        /\ TruthyText(q.build_id) => rows[i].build_id = Val(q.build_id)
        /\ TruthyText(q.environment) => rows[i].environment = Val(q.environment)
        /\ TruthyStr(q.phase) => rows[i].phase = q.phase
        /\ TruthyText(q.status) => rows[i].status = Val(q.status)
        /\ TruthyStr(q.step) => rows[i].step = Val(q.step) }

\* ORDER BY timestamp DESC over the rows idx: every order the database may return
RECURSIVE DescendingOrders(_, _)
DescendingOrders(rows, idx) ==
    IF idx = {} THEN {<<>>}
    ELSE UNION { { <<i>> \o ord : ord \in DescendingOrders(rows, idx \ {i}) } :
                 i \in { k \in idx : \A j \in idx : rows[k].timestamp >= rows[j].timestamp } }

\* LIMIT %s OFFSET %s of an ordered result
Page(rows, ord, limit, offset) ==
    LET n == Len(ord)
        last == IF offset + limit < n THEN offset + limit ELSE n
    IN  [i \in 1..(IF last > offset THEN last - offset ELSE 0) |-> rows[ord[offset + i]]]

\* GET /build-status
get_build_statuses(q) ==
    /\ \E ord \in DescendingOrders(build_status, StatusRows(build_status, q)) :
          response' = Response("get_build_statuses", q, 200,
                               Some(Page(build_status, ord, q.limit, q.offset)))
    /\ UNCHANGED <<status_vars, info_vars, fold>>

\* the query parameters of GET /build-status/summary
SummaryQuery(build_id, environment) == [build_id |-> build_id, environment |-> environment]

\* the records fetched by get_build_status_summary, in the order ord
Records(rows, ord) == [i \in 1..Len(ord) |-> rows[ord[i]]]

\* GET /build-status/summary, as one step
get_build_status_summary(build_id, environment) ==
    LET idx == SummaryRows(build_status, build_id, environment)
    IN  /\ IF idx = {}
           THEN response' = Response("get_build_status_summary",
                                     SummaryQuery(build_id, environment), 404, None)
           ELSE \E ord \in AscendingOrders(build_status, idx) :
                   response' = Response("get_build_status_summary",
                                   SummaryQuery(build_id, environment), 200,
                                   Some(Summarize(build_id, Records(build_status, ord))))
        /\ UNCHANGED <<status_vars, info_vars, fold>>

\* GET /build-status/summary step by step: the query (no response yet) ...
summary_query(build_id, environment) ==
    LET idx == SummaryRows(build_status, build_id, environment)
    IN  /\ fold = None
        /\ IF idx = {}
           THEN /\ response' = Response("get_build_status_summary",
                                          SummaryQuery(build_id, environment), 404, None)
                /\ fold' = fold
           ELSE /\ \E ord \in AscendingOrders(build_status, idx) :
                      fold' = Some([query |-> SummaryQuery(build_id, environment),
                                    records |-> Records(build_status, ord), pos |-> 0,
                                    summary |-> InitSummary(build_id,
                                                    Records(build_status, ord))])
                /\ response' = Response("get_build_status_summary",
                                          SummaryQuery(build_id, environment), 0, None)
        /\ UNCHANGED <<status_vars, info_vars>>

\* ... one iteration of the loop ...
summary_step ==
    /\ fold # None
    /\ Val(fold).pos < Len(Val(fold).records)
    /\ fold' = Some([Val(fold) EXCEPT
                       !.pos = @ + 1,
                       !.summary = FoldRecord(@, Val(fold).records[Val(fold).pos + 1])])
    /\ UNCHANGED <<status_vars, info_vars, response>>

\* ... and the return after the loop
summary_return ==
    /\ fold # None
    /\ Val(fold).pos = Len(Val(fold).records)
    /\ response' = Response("get_build_status_summary", Val(fold).query, 200,
                            Some(Finalize(Val(fold).summary)))
    /\ fold' = None
    /\ UNCHANGED <<status_vars, info_vars>>

\* GET /health
health_check ==
    /\ response' = Response("health_check", None, 200, Some("healthy"))
    /\ UNCHANGED <<status_vars, info_vars, fold>>

\* a wrong InfoRows: the lookup leaves agent_uuid out of the key
InfoRows_NoUuid(rows, item) ==
    { i \in 1..Len(rows) :
        /\ rows[i].agent_version_id = item.agent_version_id
        /\ rows[i].version = item.version }

\* the build_info rows with the key of item
InfoRows(rows, item) ==
    { i \in 1..Len(rows) :
        /\ rows[i].agent_version_id = item.agent_version_id
        /\ rows[i].agent_uuid = item.agent_uuid
        /\ rows[i].version = item.version }

\* UPDATE ... SET image_url = %s, timestamp = CURRENT_TIMESTAMP WHERE id = %s
UpdateInfo(rows, id, image_url, now) ==
    [i \in 1..Len(rows) |->
        IF rows[i].id = id
        THEN [rows[i] EXCEPT !.image_url = image_url, !.timestamp = now]
        ELSE rows[i]]

\* INSERT INTO build_info (agent_version_id, agent_uuid, version, image_url)
InsertInfo(rows, id, item, now) ==
    Append(rows, [id |-> id, agent_version_id |-> item.agent_version_id,
                  agent_uuid |-> item.agent_uuid, version |-> item.version,
                  image_url |-> item.image_url, timestamp |-> now])

\* POST /build-info, the write commits
create_or_update_build_info(item) ==
    LET existing == InfoRows(build_info, item)
    IN  /\ IF existing # {}
           THEN /\ \E i \in existing :
                      build_info' = UpdateInfo(build_info, build_info[i].id,
                                               item.image_url, clock)
                /\ info_seq' = info_seq
           ELSE /\ build_info' = InsertInfo(build_info, info_seq, item, clock)
                /\ info_seq' = info_seq + 1
        /\ clock' = clock + 1
        /\ posted' = Append(posted, item)
        /\ response' = Response("create_or_update_build_info", item, 201,
                                Some("Build info saved successfully."))
        /\ UNCHANGED <<status_vars, fold>>

\* POST /build-info, a statement or the commit raises: rollback and HTTP 500
create_or_update_build_info_rollback(item, drawn) ==
    /\ build_info' = build_info
    /\ info_seq' = info_seq + (IF InfoRows(build_info, item) = {} THEN drawn ELSE 0)
    /\ clock' = clock
    /\ posted' = posted
    /\ response' = Response("create_or_update_build_info", item, 500, None)
    /\ UNCHANGED <<status_vars, fold>>

\* GET /build-info
get_build_info(q) ==
    LET idx == { i \in 1..Len(build_info) :
                   /\ TruthyText(q.agent_uuid) => build_info[i].agent_uuid = Val(q.agent_uuid)
                   /\ TruthyText(q.agent_version_id) =>
                         build_info[i].agent_version_id = Val(q.agent_version_id)
                   /\ TruthyText(q.version) => build_info[i].version = Val(q.version) }
    IN  /\ \E ord \in DescendingOrders(build_info, idx) :
              response' = Response("get_build_info", q, 200,
                                   Some(Page(build_info, ord, q.limit, q.offset)))
        /\ UNCHANGED <<status_vars, info_vars, fold>>

\* the state after startup, with both tables empty
---------------------------------------------------------------------------
(* create_build_status statement by statement, for requests served at the  *)
(* same time: every worker has its own connection, every SELECT sees the   *)
(* rows committed when it runs, and nothing locks the table.               *)

\* the workers that serve requests at the same time
Workers == {1, 2}

\* a request in progress: the body as posted, the item as enriched so far, the
\* statement to run next, and (history) the number of rows the duration lookup
\* saw and the id the INSERT returned
Call(raw, item, pc, seen, id) ==
    [raw |-> raw, item |-> item, pc |-> pc, seen |-> seen, id |-> id]

\* the request arrives: phase inference, which reads no row
call_begin(w, item) ==
    /\ calls[w] = None
    /\ calls' = [calls EXCEPT ![w] =
                    Some(Call(item, [item EXCEPT !.phase = InferPhase(item)],
                              "number", 0, 0))]
    /\ UNCHANGED <<build_status, status_seq, submitted, info_vars, response, fold>>

\* SELECT step, step_number ... ORDER BY id DESC LIMIT 1
call_number(w) ==
    /\ calls[w] # None
    /\ Val(calls[w]).pc = "number"
    /\ LET c == Val(calls[w])
           same == RowsOfStep(build_status, c.item.build_id, c.item.step)
       IN  calls' = [calls EXCEPT ![w] =
              IF c.item.step_number # None THEN Some([c EXCEPT !.pc = "duration"])
              ELSE IF same # {} /\ build_status[LatestById(build_status, same)].step_number # None
              THEN Some([c EXCEPT !.pc = "duration",
                                  !.item.step_number =
                                      build_status[LatestById(build_status, same)].step_number])
              ELSE Some([c EXCEPT !.pc = "max"])]
    /\ UNCHANGED <<build_status, status_seq, submitted, info_vars, response, fold>>

\* SELECT MAX(step_number) ... WHERE build_id = %s
call_max(w) ==
    /\ calls[w] # None
    /\ Val(calls[w]).pc = "max"
    /\ LET c == Val(calls[w])
       IN  calls' = [calls EXCEPT ![w] =
              Some([c EXCEPT !.pc = "duration",
                             !.item.step_number =
                                 Some(MaxStep(build_status, c.item.build_id) + 1)])]
    /\ UNCHANGED <<build_status, status_seq, submitted, info_vars, response, fold>>

\* a wrong call_duration: the duration is left as posted
call_duration_skipped(w) ==
    /\ calls[w] # None
    /\ Val(calls[w]).pc = "duration"
    /\ calls' = [calls EXCEPT ![w] =
                    Some([Val(calls[w]) EXCEPT !.pc = "insert",
                                               !.seen = Len(build_status)])]
    /\ UNCHANGED <<build_status, status_seq, submitted, info_vars, response, fold>>

\* SELECT timestamp ... AND status = 'Started' ORDER BY id DESC LIMIT 1
call_duration(w) ==
    /\ calls[w] # None
    /\ Val(calls[w]).pc = "duration"
    /\ LET c == Val(calls[w])
       IN  calls' = [calls EXCEPT ![w] =
              Some([c EXCEPT !.pc = "insert",
                             !.seen = Len(build_status),
                             !.item.duration_ms = InferDuration(c.item, build_status)])]
    /\ UNCHANGED <<build_status, status_seq, submitted, info_vars, response, fold>>

\* INSERT ... RETURNING id, commit, and the 201 response
call_insert(w) ==
    /\ calls[w] # None
    /\ Val(calls[w]).pc = "insert"
    /\ LET c == Val(calls[w])
           row == Row(status_seq, c.item)
       IN  /\ build_status' = Append(build_status, row)
           /\ submitted' = Append(submitted, c.raw)
           /\ response' = Response("create_build_status", c.raw, 201, Some(row))
           /\ calls' = [calls EXCEPT ![w] = Some([c EXCEPT !.pc = "done", !.id = status_seq])]
    /\ status_seq' = status_seq + 1
    /\ UNCHANGED <<info_vars, fold>>

\* the worker is free for the next request
call_return(w) ==
    /\ calls[w] # None
    /\ Val(calls[w]).pc = "done"
    /\ calls' = [calls EXCEPT ![w] = None]
    /\ UNCHANGED <<build_status, status_seq, submitted, info_vars, response, fold>>

Init ==
    /\ build_status = <<>>
    /\ status_seq = 1
    /\ submitted = <<>>
    /\ build_info = <<>>
    /\ info_seq = 1
    /\ clock = 0
    /\ posted = <<>>
    /\ response = Response("startup", None, 0, None)
    /\ fold = None
    /\ calls = [w \in Workers |-> None]

---------------------------------------------------------------------------
(* Input domains shared by the specifications *)

Builds == {"build-1", "build-2"}

SameStep(rows, i, j) ==
    rows[i].build_id = rows[j].build_id /\ rows[i].step = rows[j].step

---------------------------------------------------------------------------
(* Step numbering: ingests that differ in build, step and step_number *)

MaxNumEvents == 4

NumItems ==
    { Item("av-1", b, None, s, n, "Started", "msg", 0, "staging", None) :
        b \in Builds, s \in {Str_DownloadAgent, Str_RunTests},
        n \in {None, Some(0), Some(5)} }

NextNum ==
    /\ Len(build_status) < MaxNumEvents
    /\ \E item \in NumItems : create_build_status(item)

SpecNum == Init /\ [][NextNum]_vars

\* C1 as stated: once an event of a (build_id, step) pair is stored with a step
\* number n, every later event of the pair posted without a step_number is stored
\* with n, whatever was ingested in between.
C1_AnyInterveningEvents ==
    \A i, j \in 1..Len(build_status) :
        ( /\ i < j
          /\ SameStep(build_status, i, j)
          /\ build_status[i].step_number # None
          /\ submitted[j].step_number = None )
        => build_status[j].step_number = build_status[i].step_number

\* C1 amended: once an event of a (build_id, step) pair is stored with a step
\* number n, every later event of the pair posted without a step_number is stored
\* with n, provided no event of the same pair posted in between carries an
\* explicit step_number other than n.
C1_StableStepNumber ==
    \A i, j \in 1..Len(build_status) :
        ( /\ i < j
          /\ SameStep(build_status, i, j)
          /\ build_status[i].step_number # None
          /\ submitted[j].step_number = None
          /\ \A k \in (i + 1)..(j - 1) :
                SameStep(build_status, i, k) =>
                    submitted[k].step_number \in {None, build_status[i].step_number} )
        => build_status[j].step_number = build_status[i].step_number

\* C1's case: a pair numbered by inference, another step of the build numbered
\* after it, then the pair again without a number, stored with its first number
C1_Witness ==
    \E i, k, j \in 1..Len(build_status) :
        /\ i < k /\ k < j
        /\ SameStep(build_status, i, j)
        /\ build_status[k].build_id = build_status[i].build_id
        /\ build_status[k].step # build_status[i].step
        /\ submitted[i].step_number = None
        /\ submitted[j].step_number = None
        /\ build_status[k].step_number # build_status[i].step_number
        /\ build_status[j].step_number = build_status[i].step_number

---------------------------------------------------------------------------
(* Duration inference: ingests that differ in step, status and timestamp.  *)
(* The timestamps are whole milliseconds: 0 s, 0.001 s and 1.001 s.        *)

MaxDurEvents == 3

DurTimes == {0, 1000, 1001000}

DurItems ==
    { Item("av-1", "build-1", None, s, None, st, "msg", t, "staging", None) :
        s \in {Str_DownloadAgent, Str_RunTests},
        st \in {"Started", "Success", "Failed"}, t \in DurTimes }

NextDur ==
    /\ Len(build_status) < MaxDurEvents
    /\ \E item \in DurItems : create_build_status(item)

SpecDur == Init /\ [][NextDur]_vars

\* C2: a Success event posted without duration_ms right after a Started event of
\* the same (build_id, step) is stored with duration_ms = t1 - t0 in milliseconds
\* exactly (timestamps are in microseconds).
C2_ExactDuration ==
    \A j \in 2..Len(build_status) :
        ( /\ build_status[j - 1].status = "Started"
          /\ SameStep(build_status, j - 1, j)
          /\ submitted[j].status = "Success"
          /\ submitted[j].duration_ms = None )
        => /\ build_status[j].duration_ms # None
           /\ Val(build_status[j].duration_ms) * MS_PER_SECOND =
                 build_status[j].timestamp - build_status[j - 1].timestamp

---------------------------------------------------------------------------
(* The fold of get_build_status_summary, one record at a time, over the    *)
(* events of one build: two steps of PreBuildPhase in every status.        *)

MaxFoldEvents == 3

FoldTimes == {0, 1000}

FoldItems ==
    { Item("av-1", "build-1", None, s, None, st, "msg", t, "staging", None) :
        s \in {Str_DownloadAgent, Str_ExtractAgent},
        st \in {"Started", "Success", "Failed", "Skipped"}, t \in FoldTimes }

NextFold ==
    \/ /\ fold = None
       /\ Len(build_status) < MaxFoldEvents
       /\ \E item \in FoldItems : create_build_status(item)
    \/ summary_query("build-1", None)
    \/ summary_step
    \/ summary_return

SpecFold == Init /\ [][NextFold]_vars

\* the loop is running before and after the step, which folded one record
FoldStepped == fold # None /\ fold' # None /\ Val(fold').pos = Val(fold).pos + 1

---------------------------------------------------------------------------
(* The hierarchical summary of one build: BuildProcess and DownloadAgent,  *)
(* started and succeeded at whole-millisecond timestamps, posted without a *)
(* phase, then summarised by the handler.                                  *)

MaxHierEvents == 4

HierTimes == {0, 1000, 1002000, 2000000}

HierItems ==
    { Item("av-1", "build-1", None, s, None, st, "msg", t, "staging", None) :
        s \in {Str_BuildProcess, Str_DownloadAgent},
        st \in {"Started", "Success"}, t \in HierTimes }

NextHier ==
    \/ /\ Len(build_status) < MaxHierEvents
       /\ \E item \in HierItems : create_build_status(item)
    \/ get_build_status_summary("build-1", None)

SpecHier == Init /\ [][NextHier]_vars

\* the stored events are exactly Started(BuildProcess, t0), Started(DownloadAgent, t1),
\* Success(DownloadAgent, t2), Success(BuildProcess, t3), posted without a phase
HierScenario(t0, t1, t2, t3) ==
    /\ Len(build_status) = 4
    /\ \A i \in 1..4 : submitted[i].phase = None
    /\ { <<build_status[i].step, build_status[i].status, build_status[i].timestamp>> :
           i \in 1..4 }
         = { <<Str_BuildProcess, "Started", t0>>, <<Str_DownloadAgent, "Started", t1>>,
             <<Str_DownloadAgent, "Success", t2>>, <<Str_BuildProcess, "Success", t3>> }

\* C4: for that build the summary has started_at = t0, completed_at = t3,
\* total_duration_ms = t3 - t0, overall_status "Success", and a phase PreBuildPhase
\* with status "Success" and duration_ms = t2 - t1 (milliseconds of microsecond
\* timestamps).
C4_HierarchicalSummary ==
    \A t0, t1, t2, t3 \in HierTimes :
        ( /\ t0 < t1 /\ t1 < t2 /\ t2 < t3
          /\ HierScenario(t0, t1, t2, t3)
          /\ response.op = "get_build_status_summary" )
        => /\ response.code = 200
           /\ LET s == Val(response.body)
                  pre == Str_PreBuild \o Str_Phase
              IN  /\ s.started_at = Some(t0)
                  /\ s.completed_at = Some(t3)
                  /\ s.total_duration_ms # None
                  /\ Val(s.total_duration_ms) * MS_PER_SECOND = t3 - t0
                  /\ s.overall_status = "Success"
                  /\ pre \in DOMAIN s.phases
                  /\ s.phases[pre].status = "Success"
                  /\ s.phases[pre].duration_ms # None
                  /\ Val(s.phases[pre].duration_ms) * MS_PER_SECOND = t2 - t1

---------------------------------------------------------------------------
(* Summaries over two builds and two environments, of events posted with   *)
(* no phase, an empty phase or a phase of their own.                       *)

MaxSumEvents == 2

SumItems ==
    { Item("av-1", b, ph, s, None, "Started", "msg", 0, env, None) :
        b \in Builds, ph \in {None, Some(<<>>), Some(Str_Custom)},
        s \in {Str_RunTests, Str_DownloadAgent}, env \in {"staging", "prod"} }

SumEnvironments == {None, Some(""), Some("staging"), Some("prod")}

NextSum ==
    \/ /\ Len(build_status) < MaxSumEvents
       /\ \E item \in SumItems : create_build_status(item)
    \/ \E b \in Builds, env \in SumEnvironments : get_build_status_summary(b, env)

SpecSum == Init /\ [][NextSum]_vars

\* the last request was a summary, answered with code
SummaryAnswered(code) == response.op = "get_build_status_summary" /\ response.code = code

\* the stored events a summary request asks for: those of its build_id and, when a
\* (non-empty) environment is given, of that environment
Asked(request) ==
    { i \in 1..Len(build_status) :
        /\ build_status[i].build_id = request.build_id
        /\ (request.environment # None /\ Val(request.environment) # "")
              => build_status[i].environment = Val(request.environment) }

\* C5: in a returned summary every stored event whose phase is null is a step of
\* the phase keyed "Unknown", the steps of every other phase come from events that
\* carry that phase, and an event posted without a phase whose step matches no
\* inference rule is stored with phase null, not "Unknown".
C5_NullPhaseUnderUnknown ==
    /\ SummaryAnswered(200) =>
          LET s == Val(response.body)
              asked == Asked(response.request)
          IN  /\ \A i \in asked :
                    build_status[i].phase = None
                        => /\ Str_Unknown \in DOMAIN s.phases
                           /\ build_status[i].step \in DOMAIN s.phases[Str_Unknown].steps
              /\ \A p \in DOMAIN s.phases \ {Str_Unknown} :
                    \A st \in DOMAIN s.phases[p].steps :
                        \E i \in asked : /\ build_status[i].step = st
                                         /\ build_status[i].phase = Some(p)
    /\ \A i \in 1..Len(build_status) :
          (submitted[i].phase = None /\ submitted[i].step = Str_RunTests)
              => build_status[i].phase = None

\* C5's case: a summary that groups a stored null-phase event under "Unknown"
\* beside a phase of its own for the same step name
C5_Witness ==
    /\ SummaryAnswered(200)
    /\ \E i, j \in Asked(response.request) :
          /\ build_status[i].phase = None
          /\ build_status[j].phase = Some(Str_Custom)
          /\ build_status[i].step = build_status[j].step
          /\ DOMAIN Val(response.body).phases = {Str_Unknown, Str_Custom}

\* C6: a summary request ends 404 exactly when the store holds no event of its
\* build_id (and environment, when given), returns a summary otherwise, and leaves
\* the store as it was.
C6_NotFoundIffNoEvents ==
    /\ [](response.op = "get_build_status_summary" =>
            /\ response.code \in {200, 404}
            /\ response.code = 404 <=> Asked(response.request) = {}
            /\ response.code = 200 =>
                  /\ response.body # None
                  /\ Val(response.body).build_id = response.request.build_id)
    /\ [][response'.op = "get_build_status_summary" =>
            /\ build_status' = build_status
            /\ build_info' = build_info]_vars

\* C6's case: a 404 for a build that has events, none in the environment asked for
C6_Witness ==
    /\ SummaryAnswered(404)
    /\ \E i \in 1..Len(build_status) :
          build_status[i].build_id = response.request.build_id

---------------------------------------------------------------------------
(* The build_info upsert *)

MaxInfoCalls == 3
MaxLostIds == 1

InfoItems ==
    { [agent_version_id |-> a, agent_uuid |-> u, version |-> "1.0", image_url |-> url] :
        a \in {"av-1", "av-2"}, u \in {"uuid-1", "uuid-2"}, url \in {"img-a", "img-b"} }

InfoQueries ==
    { [agent_uuid |-> u, agent_version_id |-> None, version |-> None,
       limit |-> l, offset |-> 0] : u \in {None, Some("uuid-1")}, l \in {1, 50} }

NextInfo ==
    \/ /\ clock < MaxInfoCalls
       /\ \E item \in InfoItems : create_or_update_build_info(item)
    \/ \E item \in InfoItems, drawn \in {0, 1} :
          /\ info_seq - 1 - Len(build_info) + drawn <= MaxLostIds
          /\ create_or_update_build_info_rollback(item, drawn)
    \/ \E q \in InfoQueries : get_build_info(q)

SpecInfo == Init /\ [][NextInfo]_vars

InfoKey(r) == <<r.agent_version_id, r.agent_uuid, r.version>>

\* C7: the build_info store holds exactly one record per key posted, with the
\* image_url of the latest post of that key; a repeat post keeps the record's id
\* and no record is ever removed.  (A post counts once its write committed.)
C7_OneRecordPerKey ==
    /\ [](/\ \A i \in 1..Len(posted) :
               Cardinality({ j \in 1..Len(build_info) :
                               InfoKey(build_info[j]) = InfoKey(posted[i]) }) = 1
          /\ \A j \in 1..Len(build_info) :
               /\ \E i \in 1..Len(posted) : InfoKey(posted[i]) = InfoKey(build_info[j])
               /\ LET last == Max({ i \in 1..Len(posted) :
                                      InfoKey(posted[i]) = InfoKey(build_info[j]) })
                  IN  build_info[j].image_url = posted[last].image_url
          /\ \A i, j \in 1..Len(build_info) :
               i # j => build_info[i].id # build_info[j].id)
    /\ [][/\ Len(build_info') >= Len(build_info)
          /\ \A j \in 1..Len(build_info) :
               /\ build_info'[j].id = build_info[j].id
               /\ InfoKey(build_info'[j]) = InfoKey(build_info[j])]_vars

\* C7's case: two keys stored, the first posted again with another image_url,
\* which its record (still id 1) now carries
C7_Witness ==
    /\ Len(posted) = 3
    /\ Len(build_info) = 2
    /\ InfoKey(posted[3]) = InfoKey(posted[1])
    /\ posted[3].image_url # posted[1].image_url
    /\ build_info[1].id = 1
    /\ build_info[1].image_url = posted[3].image_url
    /\ build_info[1].timestamp > build_info[2].timestamp

---------------------------------------------------------------------------
(* The build-status API as a whole: ingests that commit or roll back, the  *)
(* list and summary queries, the health check.                             *)

MaxEvents == 3

SpecItems ==
    { Item("av-1", b, None, Str_DownloadAgent, None, st, "msg",
           IF st = "Started" THEN 0 ELSE 1000, "staging", None) :
        b \in Builds, st \in {"Started", "Success"} }

StatusQueries ==
    { [build_id |-> b, environment |-> None, phase |-> None, status |-> None,
       step |-> None, limit |-> 50, offset |-> o] :
        b \in {None, Some("build-1")}, o \in {0, 1} }

Next ==
    \/ /\ Len(build_status) < MaxEvents
       /\ \E item \in SpecItems : create_build_status(item)
    \/ \E item \in SpecItems, drawn \in {0, 1} :
          /\ status_seq - 1 - Len(build_status) + drawn <= MaxLostIds
          /\ create_build_status_rollback(item, drawn)
    \/ \E q \in StatusQueries : get_build_statuses(q)
    \/ \E b \in Builds : get_build_status_summary(b, None)
    \/ health_check

Spec == Init /\ [][Next]_vars

\* C8: a create_build_status whose insert fails leaves the stored events as they
\* were and answers 500 without an id; one that answers with an id has added
\* exactly that one event.
C8_RollbackOrOneInsert ==
    [][response'.op = "create_build_status" =>
          \/ /\ response'.code = 500
             /\ response'.body = None
             /\ build_status' = build_status
          \/ /\ response'.code = 201
             /\ response'.body # None
             /\ build_status' = Append(build_status, Val(response'.body))
             /\ \A i \in 1..Len(build_status) :
                   build_status[i].id # Val(response'.body).id]_vars

\* C8's case: an insert failed after events had been stored
C8_Witness ==
    /\ response.op = "create_build_status"
    /\ response.code = 500
    /\ Len(build_status) >= 1
    /\ status_seq > Len(build_status) + 1

\* C9: every event once stored stays stored with every field unchanged, ids are
\* pairwise distinct, and a later insert has a larger id than every earlier one.
C9_AppendOnly ==
    /\ [][/\ Len(build_status') >= Len(build_status)
          /\ \A i \in 1..Len(build_status) : build_status'[i] = build_status[i]]_vars
    /\ [](\A i, j \in 1..Len(build_status) :
             i < j => build_status[i].id < build_status[j].id)

\* C9's case: events stored around a failed insert and then read back
C9_Witness ==
    /\ Len(build_status) >= 2
    /\ build_status[Len(build_status)].id > Len(build_status)
    /\ response.op \in {"get_build_statuses", "get_build_status_summary"}
    /\ response.code = 200

---------------------------------------------------------------------------
(* Phase inference at ingest *)

MaxPhaseEvents == 2

PhaseSteps ==
    { <<>>, Str_BuildProcess, Str_BuildProcessRetry, Str_PrePhaseCheck, Str_TagImagePhase,
      Str_InstallDependencies, Str_ECRLogin, Str_ECRLoginRetry, Str_DownloadAgent,
      Str_ExtractAgent, Str_BuildImage, Str_TagImage, Str_PushImage,
      Str_PushImageAfterECRLogin, Str_RunTests }

PhaseItems ==
    { Item("av-1", "build-1", ph, st, None, "Started", "msg", 0, "staging", None) :
        ph \in {None, Some(<<>>), Some(Str_Custom)}, st \in PhaseSteps }

NextPhase ==
    /\ Len(build_status) < MaxPhaseEvents
    /\ \E item \in PhaseItems : create_build_status(item)

SpecPhase == Init /\ [][NextPhase]_vars

\* the phase the inference rules give a step, null when no rule applies
RulePhase(step) ==
    IF Contains(step, Str_Phase) THEN Some(step)
    ELSE IF step = Str_BuildProcess THEN Some(Str_Overall)
    ELSE IF Contains(step, Str_InstallDependencies) \/ Contains(step, Str_ECRLogin)
         THEN Some(Str_Install \o Str_Phase)
    ELSE IF Contains(step, Str_DownloadAgent) \/ Contains(step, Str_ExtractAgent)
         THEN Some(Str_PreBuild \o Str_Phase)
    ELSE IF Contains(step, Str_BuildImage) THEN Some(Str_Build \o Str_Phase)
    ELSE IF Contains(step, Str_TagImage) \/ Contains(step, Str_PushImage)
         THEN Some(Str_PostBuild \o Str_Phase)
    ELSE None

---------------------------------------------------------------------------
(* Step-number inference, also over a table that held rows before the      *)
(* step_number column was added (ensure_schema_updated leaves them NULL)   *)

MaxStepEvents == 3

StepItems ==
    { Item("av-1", b, None, s, n, "Started", "msg", 0, "staging", None) :
        b \in Builds, s \in {Str_DownloadAgent, Str_RunTests},
        n \in {None, Some(0), Some(0 - 3), Some(5)} }

\* a row inserted before the columns phase, step_number, duration_ms existed
LegacyItem == Item("av-1", "build-1", None, Str_DownloadAgent, None, "Started", "msg", 0, "staging", None)

InitLegacy ==
    /\ build_status = <<Row(1, LegacyItem)>>
    /\ status_seq = 2
    /\ submitted = <<LegacyItem>>
    /\ build_info = <<>>
    /\ info_seq = 1
    /\ clock = 0
    /\ posted = <<>>
    /\ response = Response("startup", None, 0, None)
    /\ fold = None
    /\ calls = [w \in Workers |-> None]

NextStep ==
    /\ Len(build_status) < MaxStepEvents
    /\ \E item \in StepItems : create_build_status(item)

SpecStep == (Init \/ InitLegacy) /\ [][NextStep]_vars

\* the step number the rule gives an item posted without one, from the rows stored
\* before it (rows are in insertion order)
RuleStepNumber(item, rows) ==
    LET prior == { i \in 1..Len(rows) : /\ rows[i].build_id = item.build_id
                                        /\ rows[i].step = item.step }
        numbered == { i \in 1..Len(rows) : /\ rows[i].build_id = item.build_id
                                           /\ rows[i].step_number # None }
    IN  IF prior # {} /\ rows[Max(prior)].step_number # None
        THEN rows[Max(prior)].step_number
        ELSE IF numbered = {} THEN Some(1)
        ELSE Some(1 + Max({ Val(rows[i].step_number) : i \in numbered }))

\* C11: an event posted without step_number is stored with the step_number of the
\* most recently inserted prior event of its (build_id, step) when that event has
\* one, otherwise with 1 + the maximum step_number of the prior events of its
\* build (0 when none carries a number); events of other builds play no part.
C11_StepNumberInference ==
    [][(/\ Len(build_status') = Len(build_status) + 1
        /\ submitted'[Len(submitted')].step_number = None)
       => build_status'[Len(build_status')].step_number =
              RuleStepNumber(submitted'[Len(submitted')], build_status)]_vars

\* C11's case: the latest prior event of the pair has no number and another build
\* holds a larger number, so the event gets 1 + the maximum of its own build
C11_Witness ==
    /\ Len(build_status) = 3
    /\ build_status[1].step_number = None
    /\ build_status[2].build_id = "build-2"
    /\ build_status[2].step_number = Some(5)
    /\ SameStep(build_status, 1, 3)
    /\ submitted[3].step_number = None
    /\ build_status[3].step_number = Some(1)

---------------------------------------------------------------------------
(* Retries: several Started events of a (build_id, step) before a terminal one *)

MaxRetryEvents == 4

RetryTimes == {0, 1000, 2000}

RetryItems ==
    { Item("av-1", k[1], None, k[2], None, "Started", "msg", t, "staging", None) :
        k \in { <<"build-1", Str_DownloadAgent>>, <<"build-1", Str_ExtractAgent>>,
                <<"build-2", Str_DownloadAgent>> },
        t \in RetryTimes }
    \cup
    { Item("av-1", k[1], None, k[2], None, "Success", "msg", 2000, "staging", None) :
        k \in { <<"build-1", Str_DownloadAgent>>, <<"build-1", Str_ExtractAgent>>,
                <<"build-2", Str_DownloadAgent>> } }

NextRetry ==
    /\ Len(build_status) < MaxRetryEvents
    /\ \E item \in RetryItems : create_build_status(item)

SpecRetry == Init /\ [][NextRetry]_vars

\* the stored Started events of the (build_id, step) of item
StartedOfPair(item, rows) ==
    { i \in 1..Len(rows) : /\ rows[i].build_id = item.build_id
                           /\ rows[i].step = item.step
                           /\ rows[i].status = "Started" }

\* C12: the duration inferred for a terminal event is the time from the Started
\* event of its (build_id, step) with the largest id to the terminal event
\* (whole milliseconds of microsecond timestamps), whatever the timestamps of the
\* other Started events of the pair, of other steps and of other builds.
C12_MostRecentStarted ==
    [][(/\ Len(build_status') = Len(build_status) + 1
        /\ submitted'[Len(submitted')].status \in {"Success", "Failed"}
        /\ submitted'[Len(submitted')].duration_ms = None
        /\ StartedOfPair(submitted'[Len(submitted')], build_status) # {})
       => LET item == submitted'[Len(submitted')]
              started == StartedOfPair(item, build_status)
              latest == CHOOSE i \in started :
                            \A j \in started : build_status[j].id <= build_status[i].id
          IN  build_status'[Len(build_status')].duration_ms =
                  Some((item.timestamp - build_status[latest].timestamp) \div 1000)]_vars

\* C12's case: three Started events of one pair, the last inserted neither the
\* earliest nor the latest in time, then a Success paired with the last inserted
C12_Witness ==
    /\ Len(build_status) = 4
    /\ \A i \in 1..3 : build_status[i].status = "Started" /\ SameStep(build_status, i, 4)
    /\ build_status[1].timestamp = 0
    /\ build_status[2].timestamp = 2000
    /\ build_status[3].timestamp = 1000
    /\ build_status[4].status = "Success"
    /\ build_status[4].timestamp = 2000
    /\ build_status[4].duration_ms = Some(1)

---------------------------------------------------------------------------
(* When duration inference applies: statuses and submitted durations *)

MaxInferEvents == 3

InferItems ==
    { Item("av-1", "build-1", None, s, None, st, "msg", t, "staging", d) :
        s \in {Str_DownloadAgent, Str_ExtractAgent},
        st \in {"Started", "Success", "Failed", "Skipped"},
        t \in {0, 1000000},
        d \in {None, Some(0), Some(7)} }

NextInfer ==
    /\ Len(build_status) < MaxInferEvents
    /\ \E item \in InferItems : create_build_status(item)

SpecInfer == Init /\ [][NextInfer]_vars

\* C13: an event submitted with a duration_ms (any integer, 0 included) is stored
\* with it, an event whose status is not Success or Failed is stored with the
\* duration_ms submitted (null if omitted), and a terminal event without
\* duration_ms and without a prior Started event of its (build_id, step) is stored
\* with duration_ms null.
C13_InferenceOnlyWhenAbsent ==
    \A j \in 1..Len(build_status) :
        /\ submitted[j].duration_ms # None
              => build_status[j].duration_ms = submitted[j].duration_ms
        /\ submitted[j].status \notin {"Success", "Failed"}
              => build_status[j].duration_ms = submitted[j].duration_ms
        /\ ( /\ submitted[j].status \in {"Success", "Failed"}
             /\ submitted[j].duration_ms = None
             /\ StartedOfPair(submitted[j], SubSeq(build_status, 1, j - 1)) = {} )
              => build_status[j].duration_ms = None

---------------------------------------------------------------------------
(* Phase status in the returned summary *)

MaxStatusEvents == 3

StatusItems ==
    { Item("av-1", "build-1", None, s, None, st, "msg", t, "staging", None) :
        s \in {Str_DownloadAgent, Str_ExtractAgent},
        st \in {"Started", "Success", "Failed", "Skipped"},
        t \in {0, 1000} }

NextStatus ==
    \/ /\ Len(build_status) < MaxStatusEvents
       /\ \E item \in StatusItems : create_build_status(item)
    \/ get_build_status_summary("build-1", None)

SpecStatus == Init /\ [][NextStatus]_vars

\* the status the rule gives a phase with these steps
RulePhaseStatus(steps) ==
    IF \E s \in DOMAIN steps : steps[s].status = "Failed" THEN "Failed"
    ELSE IF \A s \in DOMAIN steps : steps[s].status = "Success" THEN "Success"
    ELSE IF \E s \in DOMAIN steps : steps[s].status = "Started" THEN "In Progress"
    ELSE "Not Started"

\* C14: in a returned summary the status of each phase is "Failed" if a step of
\* it has final status Failed, else "Success" if all have Success, else
\* "In Progress" if one has Started, else "Not Started".
C14_PhaseStatusOfFinalSteps ==
    SummaryAnswered(200) =>
        \A p \in DOMAIN Val(response.body).phases :
            Val(response.body).phases[p].status =
                RulePhaseStatus(Val(response.body).phases[p].steps)

---------------------------------------------------------------------------
(* The overall status of the returned summary *)

MaxOverallEvents == 3

OverallItems ==
    { Item("av-1", "build-1", None, s, None, st, "msg", t, "staging", None) :
        s \in {Str_BuildProcess, Str_DownloadAgent},
        st \in {"Started", "Success", "Failed"},
        t \in {0, 1000} }

NextOverall ==
    \/ /\ Len(build_status) < MaxOverallEvents
       /\ \E item \in OverallItems : create_build_status(item)
    \/ get_build_status_summary("build-1", None)

SpecOverall == Init /\ [][NextOverall]_vars

\* the statuses the pass can leave in overall_status: that of a terminal
\* BuildProcess event that is last in timestamp order, "In Progress" without one
PassStatuses(rows) ==
    LET ends == { i \in 1..Len(rows) : rows[i].step = Str_BuildProcess
                                       /\ Terminal(rows[i].status) }
    IN  IF ends = {} THEN {"In Progress"}
        ELSE { rows[i].status :
                 i \in { k \in ends : \A j \in ends : rows[j].timestamp <= rows[k].timestamp } }

\* C15: the returned overall_status is "Failed" if a phase has status Failed,
\* else "Success" if every phase but the one keyed "Overall" has status Success,
\* else the status of the last terminal BuildProcess event, "In Progress" if
\* there is none.
C15_OverallStatus ==
    SummaryAnswered(200) =>
        LET body == Val(response.body)
        IN  IF \E p \in DOMAIN body.phases : body.phases[p].status = "Failed"
            THEN body.overall_status = "Failed"
            ELSE IF \A p \in DOMAIN body.phases \ {Str_Overall} :
                        body.phases[p].status = "Success"
            THEN body.overall_status = "Success"
            ELSE body.overall_status \in PassStatuses(build_status)

---------------------------------------------------------------------------
(* The timestamps and durations the fold keeps for phases and steps: two    *)
(* steps of PreBuildPhase, started, succeeded or skipped at two instants    *)

MaxTimesEvents == 3

TimesItems ==
    { Item("av-1", "build-1", None, s, None, st, "msg", t, "staging", None) :
        s \in {Str_DownloadAgent, Str_ExtractAgent},
        st \in {"Started", "Success", "Skipped"},
        t \in {1000, 1002000} }

NextTimes ==
    \/ /\ fold = None
       /\ Len(build_status) < MaxTimesEvents
       /\ \E item \in TimesItems : create_build_status(item)
    \/ summary_query("build-1", None)
    \/ summary_step
    \/ summary_return

SpecTimes == Init /\ [][NextTimes]_vars

\* a field of a dict entry before a fold step, null when the entry is not there yet
FieldBefore(dict, key, field) == IF key \in DOMAIN dict THEN dict[key][field] ELSE None

\* C16: a fold step sets the phase's completed_at, to the event's timestamp,
\* exactly when the event is terminal and every step then known in the phase has
\* a terminal status, and then sets duration_ms to completed_at minus started_at
\* (milliseconds of microsecond timestamps) if started_at is set; the phase's and
\* the step's started_at are set by their first Started event and never
\* overwritten.
C16_PhaseAndStepTimes ==
    [][FoldStepped =>
         LET r == Val(fold').records[Val(fold').pos]
             p == PhaseName(r)
             before == Val(fold).summary.phases
             phase == Val(fold').summary.phases[p]
             steps == IF p \in DOMAIN before THEN before[p].steps ELSE EmptyDict
             closes == /\ Terminal(r.status)
                       /\ \A s \in DOMAIN phase.steps : Terminal(phase.steps[s].status)
         IN  /\ phase.completed_at = IF closes THEN Some(r.timestamp)
                                     ELSE FieldBefore(before, p, "completed_at")
             /\ phase.duration_ms =
                    IF closes /\ phase.started_at # None
                    THEN Some((r.timestamp - Val(phase.started_at)) \div 1000)
                    ELSE FieldBefore(before, p, "duration_ms")
             /\ phase.started_at =
                    IF r.status = "Started" /\ FieldBefore(before, p, "started_at") = None
                    THEN Some(r.timestamp)
                    ELSE FieldBefore(before, p, "started_at")
             /\ phase.steps[r.step].started_at =
                    IF r.status = "Started" /\ FieldBefore(steps, r.step, "started_at") = None
                    THEN Some(r.timestamp)
                    ELSE FieldBefore(steps, r.step, "started_at")
             /\ \A q \in DOMAIN before \ {p} : Val(fold').summary.phases[q] = before[q]]_vars

---------------------------------------------------------------------------
(* Concurrent ingests for one build, every one without step_number and     *)
(* without duration_ms                                                     *)

MaxRaceCalls == 3

RaceItems ==
    { Item("av-1", "build-1", None, s, None, st, "msg", t, "staging", None) :
        s \in {Str_DownloadAgent, Str_ExtractAgent},
        st \in {"Started", "Success"},
        t \in {0, 1000} }

\* the requests that have arrived and not yet inserted
InProgress == { w \in Workers : calls[w] # None /\ Val(calls[w]).pc # "done" }

NextRace ==
    \/ \E w \in Workers, item \in RaceItems :
          /\ Len(build_status) + Cardinality(InProgress) < MaxRaceCalls
          /\ call_begin(w, item)
    \/ \E w \in Workers : call_number(w)
    \/ \E w \in Workers : call_max(w)
    \/ \E w \in Workers : call_duration(w)
    \/ \E w \in Workers : call_insert(w)
    \/ \E w \in Workers : call_return(w)

SpecRace == Init /\ [][NextRace]_vars

\* the row a finished request inserted
RowOf(c) == build_status[CHOOSE i \in 1..Len(build_status) : build_status[i].id = c.id]

\* C17: nothing serialises concurrent create_build_status calls: a terminal event
\* is stored with the duration computed from the latest Started event of its
\* (build_id, step) among the rows its lookup saw, whatever was inserted between
\* its lookup and its insert; so two terminal events of one pair that both look
\* up before either inserts are both stored, paired with the same Started event.
C17_StoredWithDurationLookedUp ==
    \A w \in Workers :
        (calls[w] # None /\ Val(calls[w]).pc = "done"
                         /\ Val(calls[w]).raw.status \in {"Success", "Failed"}) =>
            LET c == Val(calls[w])
                seen == SubSeq(build_status, 1, c.seen)
                started == StartedOfPair(c.raw, seen)
            IN  /\ \E i \in 1..Len(build_status) : build_status[i].id = c.id
                /\ RowOf(c).status = c.raw.status
                /\ RowOf(c).duration_ms =
                      IF started = {} THEN None
                      ELSE Some((c.raw.timestamp - seen[Max(started)].timestamp) \div 1000)

\* C17's case: after one Started event, two Success events of its pair, each
\* looked up when only the Started event was stored, are both stored with the
\* duration from that Started event
C17_Witness ==
    /\ Len(build_status) = 3
    /\ build_status[1].status = "Started"
    /\ build_status[1].timestamp = 0
    /\ \A w \in Workers :
          /\ calls[w] # None
          /\ Val(calls[w]).pc = "done"
          /\ Val(calls[w]).seen = 1
          /\ Val(calls[w]).id \in {2, 3}
    /\ \A i \in {2, 3} :
          /\ SameStep(build_status, 1, i)
          /\ build_status[i].status = "Success"
          /\ build_status[i].timestamp = 1000
          /\ build_status[i].duration_ms = Some(1)

\* C18: two stored events of a build with different step names never carry the
\* same step_number, however the calls that stored them interleave.
C18_StepNumberUniquePerStep ==
    \A i, j \in 1..Len(build_status) :
        ( /\ build_status[i].build_id = build_status[j].build_id
          /\ build_status[i].step # build_status[j].step )
        => build_status[i].step_number # build_status[j].step_number

---------------------------------------------------------------------------
(* Properties of the summary over every store of BuildProcess and          *)
(* DownloadAgent events (SpecOverall)                                      *)

\* C19: the summary of a build is the same for every order of its stored events
\* that is ascending by timestamp, however events with equal timestamps are
\* ordered.
C19_SummaryOfTheEventSet ==
    LET idx == SummaryRows(build_status, "build-1", None)
    IN  idx # {} =>
            \A o1, o2 \in AscendingOrders(build_status, idx) :
                Summarize("build-1", Records(build_status, o1))
                    = Summarize("build-1", Records(build_status, o2))

\* C20: a returned summary with a step whose final status is Failed has not
\* overall_status "Success", and one with a completed_at has overall_status
\* "Success" or "Failed".
C20_NoSuccessWithFailedStep ==
    SummaryAnswered(200) =>
        LET body == Val(response.body)
        IN  /\ (\E p \in DOMAIN body.phases : \E s \in DOMAIN body.phases[p].steps :
                   body.phases[p].steps[s].status = "Failed")
                  => body.overall_status # "Success"
            /\ body.completed_at # None => body.overall_status \in {"Success", "Failed"}

\* C20's case: BuildProcess ended with Success, so the pass set completed_at and
\* "Success", and DownloadAgent ended Failed: the summary returned says "Failed"
C20_Witness ==
    /\ SummaryAnswered(200)
    /\ LET body == Val(response.body)
       IN  /\ body.completed_at # None
           /\ body.overall_status = "Failed"
           /\ body.phases[Str_Overall].steps[Str_BuildProcess].status = "Success"
           /\ body.phases[Str_PreBuild \o Str_Phase].steps[Str_DownloadAgent].status = "Failed"
====
